---- MODULE Spec2Model ----
(***************************************************************************)
(* Model of the running-ledger calculator of src/src/main.rs: the parser   *)
(* (chumsky combinators, character by character), the Value arithmetic,    *)
(* the evaluator's running balance and the pretty-printer, run as the      *)
(* pipeline of main(): parse -> evaluate -> pretty_print.                  *)
(*                                                                         *)
(* Text is a sequence of one-character strings.  A Decimal is a record     *)
(* [m, s] standing for m / 10^s (rust_decimal: mantissa and scale).        *)
(* A Value is <<"Number", d>> or <<"Interval", lo, hi>>; an Operation is   *)
(* <<"Value", v>>, <<"Mul", l, r>> or <<"Div", l, r>>; Option<Value> is    *)
(* <<"None">> or <<"Some", v>>; a panic (unimplemented!(), Decimal's       *)
(* division by zero) is the result <<"Panic">>.                            *)
(***************************************************************************)
EXTENDS Integers, Sequences, FiniteSets, TLC

VARIABLES input, buf, pc, lines, parsed, idx, accu, out, stdout, run, prevOut, prevLines

vars == <<input, buf, pc, lines, parsed, idx, accu, out, stdout, run, prevOut, prevLines>>

(***************************************************************************)
(* Bounds of the model.                                                    *)
(***************************************************************************)
\* Longest document (number of lines) drawn as input.
MaxLines == 4
\* How many times the program is run, each run after the first reading the
\* output of the run before it.
MaxRuns == 2
\* Largest scale a quotient is carried to before it is rounded (rust_decimal
\* carries 28 digits; the model's integers cannot).
DivPrec == 3

(***************************************************************************)
(* Characters.                                                             *)
(***************************************************************************)
NL == "\n"

Digits == <<"0", "1", "2", "3", "4", "5", "6", "7", "8", "9">>

IsDigit(c) == \E d \in 1..10 : Digits[d] = c

DigitVal(c) == (CHOOSE d \in 1..10 : Digits[d] = c) - 1

\* The character at position p, or "EOF" (no character) past the end.
At(s, p) == IF p >= 1 /\ p <= Len(s) THEN s[p] ELSE "EOF"

\* chumsky inline_whitespace(): whitespace other than a line break.
IsInlineWs(c) == c = " "

\* chumsky whitespace().
IsWs(c) == c = " " \/ c = NL

RECURSIVE Repeat(_, _)
Repeat(c, n) == IF n <= 0 THEN <<>> ELSE <<c>> \o Repeat(c, n - 1)

Max(a, b) == IF a >= b THEN a ELSE b

Abs(a) == IF a < 0 THEN 0 - a ELSE a

RECURSIVE Pow10(_)
Pow10(n) == IF n <= 0 THEN 1 ELSE 10 * Pow10(n - 1)

(***************************************************************************)
(* rust_decimal::Decimal, as far as main.rs uses it.                       *)
(***************************************************************************)
Dec(m, s) == [m |-> m, s |-> s]

DecZero == Dec(0, 0)

\* Decimal's PartialOrd / PartialEq compare the numbers, not the scales.
DecLe(x, y) ==
    LET s == Max(x.s, y.s)
    IN  x.m * Pow10(s - x.s) <= y.m * Pow10(s - y.s)

DecEq(x, y) == DecLe(x, y) /\ DecLe(y, x)

\* n - m: exact, at the larger scale.
DecSub(x, y) ==
    LET s == Max(x.s, y.s)
    IN  Dec(x.m * Pow10(s - x.s) - y.m * Pow10(s - y.s), s)

\* n * m: exact, the scales add.
DecMul(x, y) == Dec(x.m * y.m, x.s + y.s)

\* The smallest scale k in 0..DivPrec at which num / den is exact, else DivPrec.
RECURSIVE QuotScale(_, _, _)
QuotScale(num, den, k) ==
    IF k >= DivPrec \/ (num * Pow10(k)) % den = 0 THEN k
    ELSE QuotScale(num, den, k + 1)

\* n / m for m # 0: the exact quotient when it has at most DivPrec decimals,
\* else the quotient rounded (half to even) at DivPrec decimals.
DecDiv(x, y) ==
    LET sgn == IF (x.m < 0) = (y.m < 0) THEN 1 ELSE 0 - 1
        num == Abs(x.m) * Pow10(y.s)
        den == Abs(y.m) * Pow10(x.s)
        k   == QuotScale(num, den, 0)
        q   == (num * Pow10(k)) \div den
        r   == (num * Pow10(k)) % den
        up  == 2 * r > den \/ (2 * r = den /\ q % 2 = 1)
    IN  Dec(sgn * (IF up THEN q + 1 ELSE q), k)

\* Decimal::round_dp(dp): banker's rounding to dp decimals.
round_dp(x, dp) ==
    IF x.s <= dp THEN x
    ELSE LET p  == Pow10(x.s - dp)
             a  == Abs(x.m)
             q  == a \div p
             r  == a % p
             up == 2 * r > p \/ (2 * r = p /\ q % 2 = 1)
             n  == IF up THEN q + 1 ELSE q
         IN  Dec(IF x.m < 0 THEN 0 - n ELSE n, dp)

\* Decimal::normalize(): strips trailing zeros of the fraction; -0 becomes 0.
RECURSIVE normalize(_)
normalize(x) ==
    IF x.m = 0 THEN DecZero
    ELSE IF x.s > 0 /\ x.m % 10 = 0 THEN normalize(Dec(x.m \div 10, x.s - 1))
    ELSE x

RECURSIVE DigitsOf(_)
DigitsOf(n) ==
    IF n < 10 THEN <<Digits[n + 1]>>
    ELSE DigitsOf(n \div 10) \o <<Digits[(n % 10) + 1]>>

\* impl Display for Decimal: sign, integer part, and the fraction padded to
\* the scale.
DecDisplay(x) ==
    LET a    == Abs(x.m)
        p    == Pow10(x.s)
        frac == DigitsOf(a % p)
        sign == IF x.m < 0 THEN <<"-">> ELSE <<>>
    IN  IF x.s = 0 THEN sign \o DigitsOf(a)
        ELSE sign \o DigitsOf(a \div p) \o <<".">>
                  \o Repeat("0", x.s - Len(frac)) \o frac

\* impl FromStr for Decimal, on a slice the number grammar accepted:
\* the digits are the mantissa, the digits after the point the scale.
RECURSIVE Mantissa(_, _, _)
Mantissa(t, p, m) ==
    IF p > Len(t) THEN m
    ELSE IF IsDigit(t[p]) THEN Mantissa(t, p + 1, 10 * m + DigitVal(t[p]))
    ELSE Mantissa(t, p + 1, m)

DecFromStr(t) ==
    LET m == Mantissa(t, 1, 0)
        s == IF \E i \in 1..Len(t) : t[i] = "."
             THEN Len(t) - (CHOOSE i \in 1..Len(t) : t[i] = ".")
             ELSE 0
    IN  Dec(IF At(t, 1) = "-" THEN 0 - m ELSE m, s)

(***************************************************************************)
(* enum Value, Option<Value>, enum Operation, enum Line.                   *)
(***************************************************************************)
Number(n) == <<"Number", n>>

Interval(a, b) == <<"Interval", a, b>>

IsNumber(v) == v[1] = "Number"

IsInterval(v) == v[1] = "Interval"

Panic == <<"Panic">>

IsPanic(v) == v[1] = "Panic"

None == <<"None">>

Some(v) == <<"Some", v>>

OpValue(v) == <<"Value", v>>

OpMul(l, r) == <<"Mul", l, r>>

OpDiv(l, r) == <<"Div", l, r>>

OperationLine(op, c) == [kind |-> "Operation", operation |-> op, value |-> None, comment |-> c]

SubtotalLine(v, c) == [kind |-> "Subtotal", operation |-> None, value |-> v, comment |-> c]

(***************************************************************************)
(* impl Value: sub, mul, div.                                              *)
(***************************************************************************)
\* sub with the bounds of a Number less an Interval left in their order.
sub_unswapped(self, value) ==
    IF IsNumber(self) /\ IsNumber(value) THEN Number(DecSub(self[2], value[2]))
    ELSE IF IsNumber(self) /\ IsInterval(value)
    THEN Interval(DecSub(self[2], value[2]), DecSub(self[2], value[3]))
    ELSE IF IsInterval(self) /\ IsNumber(value)
    THEN Interval(DecSub(self[2], value[2]), DecSub(self[3], value[2]))
    ELSE Interval(DecSub(self[2], value[3]), DecSub(self[3], value[2]))

sub(self, value) ==
    IF IsNumber(self) /\ IsNumber(value) THEN Number(DecSub(self[2], value[2]))
    ELSE IF IsNumber(self) /\ IsInterval(value)
    THEN Interval(DecSub(self[2], value[3]), DecSub(self[2], value[2]))
    ELSE IF IsInterval(self) /\ IsNumber(value)
    THEN Interval(DecSub(self[2], value[2]), DecSub(self[3], value[2]))
    ELSE Interval(DecSub(self[2], value[3]), DecSub(self[3], value[2]))

\* mul with `||` for `&&` in the test of the lower bounds.
mul_either_bound(self, r) ==
    IF IsNumber(self) /\ IsNumber(r) THEN Number(DecMul(self[2], r[2]))
    ELSE IF IsNumber(self) /\ IsInterval(r)
    THEN Interval(DecMul(self[2], r[2]), DecMul(self[2], r[3]))
    ELSE IF IsInterval(self) /\ IsNumber(r)
    THEN Interval(DecMul(self[2], r[2]), DecMul(self[3], r[2]))
    ELSE IF DecLe(DecZero, self[2]) \/ DecLe(DecZero, r[2])
    THEN Interval(DecMul(self[2], r[2]), DecMul(self[3], r[3]))
    ELSE Panic

mul(self, r) ==
    IF IsNumber(self) /\ IsNumber(r) THEN Number(DecMul(self[2], r[2]))
    ELSE IF IsNumber(self) /\ IsInterval(r)
    THEN Interval(DecMul(self[2], r[2]), DecMul(self[2], r[3]))
    ELSE IF IsInterval(self) /\ IsNumber(r)
    THEN Interval(DecMul(self[2], r[2]), DecMul(self[3], r[2]))
    ELSE IF DecLe(DecZero, self[2]) /\ DecLe(DecZero, r[2])
    THEN Interval(DecMul(self[2], r[2]), DecMul(self[3], r[3]))
    ELSE Panic

\* Decimal's `/` panics on a zero divisor.
div(self, r) ==
    IF IsNumber(self) /\ IsNumber(r)
    THEN IF r[2].m = 0 THEN Panic ELSE Number(DecDiv(self[2], r[2]))
    ELSE IF IsNumber(self) /\ IsInterval(r)
    THEN IF r[2].m = 0 \/ r[3].m = 0 THEN Panic
         ELSE Interval(DecDiv(self[2], r[2]), DecDiv(self[2], r[3]))
    ELSE IF IsInterval(self) /\ IsNumber(r)
    THEN IF r[2].m = 0 THEN Panic
         ELSE Interval(DecDiv(self[2], r[2]), DecDiv(self[3], r[2]))
    ELSE Panic

(***************************************************************************)
(* The parsers.  A parser takes the text and a position and returns        *)
(* [ok, pos, val]: whether it matched, the position after the match, and   *)
(* its output.                                                             *)
(***************************************************************************)
Fail == [ok |-> FALSE, pos |-> 0, val |-> None]

\* F applied to the value of x, x being evaluated once.
Bind(x, F(_)) == CHOOSE y \in { F(v) : v \in {x} } : TRUE

Ok(p, v) == [ok |-> TRUE, pos |-> p, val |-> v]

RECURSIVE SkipInlineWs(_, _)
SkipInlineWs(s, p) == IF IsInlineWs(At(s, p)) THEN SkipInlineWs(s, p + 1) ELSE p

RECURSIVE SkipWs(_, _)
SkipWs(s, p) == IF IsWs(At(s, p)) THEN SkipWs(s, p + 1) ELSE p

RECURSIVE SkipDigits(_, _)
SkipDigits(s, p) == IF IsDigit(At(s, p)) THEN SkipDigits(s, p + 1) ELSE p

RECURSIVE SkipDashes(_, _)
SkipDashes(s, p) == IF At(s, p) = "-" THEN SkipDashes(s, p + 1) ELSE p

\* none_of("\n").repeated(): up to the line break or the end of the text.
RECURSIVE SkipToEol(_, _)
SkipToEol(s, p) == IF p > Len(s) \/ s[p] = NL THEN p ELSE SkipToEol(s, p + 1)

\* chumsky text::int(10): a lone 0, or a non-zero digit and more digits.
\* The position after it, or 0 when there is no integer at p.
text_int(s, p) ==
    IF At(s, p) = "0" THEN p + 1
    ELSE IF IsDigit(At(s, p)) THEN SkipDigits(s, p)
    ELSE 0

\* The `number` parser of parse_value.
number(s, p) ==
    Bind(text_int(s, IF At(s, p) = "-" THEN p + 1 ELSE p), LAMBDA p2 :
        IF p2 = 0 THEN Fail
        ELSE Bind(IF At(s, p2) = "." /\ IsDigit(At(s, p2 + 1))
                  THEN SkipDigits(s, p2 + 1) ELSE p2, LAMBDA p3 :
                 Ok(p3, DecFromStr(SubSeq(s, p, p3 - 1)))))

\* The second bound of an interval and its closing bracket, after the comma.
interval_end(s, p, lo) ==
    Bind(number(s, SkipWs(s, p)), LAMBDA b :
        IF ~b.ok THEN Fail
        ELSE Bind(SkipInlineWs(s, b.pos), LAMBDA e :
                 IF At(s, e) # "]" THEN Fail
                 ELSE Ok(e + 1, Interval(lo, b.val))))

\* The `interval` parser of parse_value.
interval(s, p) ==
    IF At(s, p) # "[" THEN Fail
    ELSE Bind(number(s, SkipInlineWs(s, p + 1)), LAMBDA a :
             IF ~a.ok THEN Fail
             ELSE Bind(SkipWs(s, a.pos), LAMBDA c :
                      IF At(s, c) # "," THEN Fail
                      ELSE interval_end(s, c + 1, a.val)))

parse_value(s, p) ==
    Bind(number(s, p), LAMBDA n :
        IF n.ok THEN Ok(n.pos, Number(n.val)) ELSE interval(s, p))

\* The precedence both infix operators are given.
OpPrecedence == 1

\* chumsky pratt::right(n): the binding powers of a right-associative operator.
right(n) == [lp |-> 2 * n + 1, rp |-> 2 * n]

\* chumsky pratt::left(n): the binding powers of a left-associative operator.
left(n) == [lp |-> 2 * n, rp |-> 2 * n + 1]

\* The atom of parse_operation.
atom(s, p) ==
    Bind(parse_value(s, SkipInlineWs(s, p)), LAMBDA v :
        IF v.ok THEN Ok(v.pos, OpValue(v.val)) ELSE Fail)

\* chumsky's pratt parser: an atom, then infix operators whose left binding
\* power is at least min_power, each followed by an operand parsed at the
\* operator's right binding power.  An operator with no operand after it is
\* given back (the text is rewound to before it).
RECURSIVE pratt_go(_, _, _), pratt_loop(_, _, _, _)
pratt_go(s, p, min_power) ==
    Bind(atom(s, p), LAMBDA a :
        IF ~a.ok THEN Fail ELSE pratt_loop(s, a.val, a.pos, min_power))

pratt_loop(s, lhs, p, min_power) ==
    Bind(SkipInlineWs(s, p), LAMBDA o :
        IF (At(s, o) = "*" \/ At(s, o) = "/") /\ left(OpPrecedence).lp >= min_power
        THEN Bind(pratt_go(s, o + 1, left(OpPrecedence).rp), LAMBDA rhs :
                 IF rhs.ok
                 THEN pratt_loop(s, IF At(s, o) = "*" THEN OpMul(lhs, rhs.val)
                                    ELSE OpDiv(lhs, rhs.val),
                                 rhs.pos, min_power)
                 ELSE Ok(p, lhs))
        ELSE Ok(p, lhs))

parse_operation(s, p) == pratt_go(s, p, 0)

\* An optional comment: at least one inline space, then the rest of the line.
\* [pos, text]; without the space nothing is consumed and the comment is empty.
spaced_comment(s, p) ==
    Bind(SkipInlineWs(s, p), LAMBDA q :
        IF q > p
        THEN Bind(SkipToEol(s, q), LAMBDA e : [pos |-> e, text |-> SubSeq(s, q, e - 1)])
        ELSE [pos |-> p, text |-> <<>>])

parse_operation_line(s, p) ==
    Bind(parse_operation(s, p), LAMBDA v :
        IF ~v.ok THEN Fail
        ELSE Bind(spaced_comment(s, v.pos), LAMBDA c :
                 Ok(c.pos, OperationLine(v.val, c.text))))

\* The result line of parse_subtotal: choice((value, no_value)).
result_line(s, r) ==
    Bind(parse_value(s, r), LAMBDA v :
        IF v.ok
        THEN Bind(spaced_comment(s, v.pos), LAMBDA c :
                 Ok(c.pos, SubtotalLine(Some(v.val), c.text)))
        ELSE Bind(SkipInlineWs(s, r), LAMBDA q :
                 Bind(SkipToEol(s, q), LAMBDA e :
                     Ok(e, SubtotalLine(None, SubSeq(s, q, e - 1))))))

parse_subtotal(s, p) ==
    Bind(SkipInlineWs(s, SkipDashes(s, p)), LAMBDA w :
        IF At(s, w) # NL THEN Fail ELSE result_line(s, w + 1))

parse_line(s, p) ==
    Bind(parse_operation_line(s, p), LAMBDA o :
        IF o.ok THEN o ELSE parse_subtotal(s, p))

\* main()'s parser: parse_line().then_ignore(whitespace()).repeated()
\* .collect().then_ignore(end()).
RECURSIVE parse_lines(_, _, _)
parse_lines(s, p, acc) ==
    Bind(parse_line(s, p), LAMBDA l :
        IF l.ok THEN parse_lines(s, SkipWs(s, l.pos), Append(acc, l.val))
        ELSE IF p = Len(s) + 1 THEN Ok(p, acc)
        ELSE Fail)

parse_document(s) == parse_lines(s, 1, <<>>)

(***************************************************************************)
(* The pretty-printer.                                                     *)
(***************************************************************************)
\* The decimals a printed number is rounded to.
PrintDp == 2

pretty_print_decimal(d) == DecDisplay(normalize(round_dp(d, PrintDp)))

pretty_print_value(v) ==
    IF IsNumber(v) THEN pretty_print_decimal(v[2])
    ELSE <<"[">> \o pretty_print_decimal(v[2]) \o <<",", " ">>
               \o pretty_print_decimal(v[3]) \o <<"]">>

RECURSIVE pretty_print_operation(_)
pretty_print_operation(op) ==
    IF op[1] = "Mul"
    THEN pretty_print_operation(op[2]) \o <<" ", "*", " ">> \o pretty_print_operation(op[3])
    ELSE IF op[1] = "Div"
    THEN pretty_print_operation(op[2]) \o <<" ", "/", " ">> \o pretty_print_operation(op[3])
    ELSE pretty_print_value(op[2])

\* The left-hand side of a line: Some(text), or None for a subtotal without
\* a value.
lhs_of(line) ==
    IF line.kind = "Operation" THEN Some(pretty_print_operation(line.operation))
    ELSE IF line.value = None THEN None
    ELSE Some(pretty_print_value(line.value[2]))

lhs_len(l) == IF l = None THEN 0 ELSE Len(l[2])

RECURSIVE MaxOf(_, _)
MaxOf(f, n) == IF n = 0 THEN 0 ELSE Max(f[n], MaxOf(f, n - 1))

\* lhs_col taken over the Operation lines alone.
lhs_col_of_operations(ls) ==
    MaxOf([i \in 1..Len(ls) |->
              IF ls[i].kind = "Operation" THEN lhs_len(lhs_of(ls[i])) ELSE 0], Len(ls))

lhs_col_of(ls) == MaxOf([i \in 1..Len(ls) |-> lhs_len(lhs_of(ls[i]))], Len(ls))

\* format!("{:>width$}", t): t after the spaces that fill it up to width.
pad_left(t, width) == Repeat(" ", width - Len(t)) \o t

\* The rows one line is printed as, each ended by a line break.
print_line(line, width) ==
    Bind(lhs_of(line), LAMBDA l :
        IF line.kind = "Operation"
        THEN pad_left(l[2], width) \o <<" ">> \o line.comment \o <<NL>>
        ELSE Repeat("-", width) \o <<NL>>
             \o pad_left(IF l = None THEN <<>> ELSE l[2], width) \o <<" ">>
             \o line.comment \o <<NL>>
             \o <<NL>>)

RECURSIVE print_lines(_, _, _)
print_lines(ls, i, width) ==
    IF i > Len(ls) THEN <<>>
    ELSE print_line(ls[i], width) \o print_lines(ls, i + 1, width)

pretty_print(ls) == Bind(lhs_col_of(ls), LAMBDA lhs_col : print_lines(ls, 1, lhs_col))

(***************************************************************************)
(* The evaluator.                                                          *)
(***************************************************************************)
RECURSIVE evaluate_operation(_)
evaluate_operation(op) ==
    IF op[1] = "Value" THEN op[2]
    ELSE Bind(evaluate_operation(op[2]), LAMBDA l :
             IF IsPanic(l) THEN Panic
             ELSE Bind(evaluate_operation(op[3]), LAMBDA r :
                      IF IsPanic(r) THEN Panic
                      ELSE IF op[1] = "Mul" THEN mul(l, r)
                      ELSE div(l, r)))

(***************************************************************************)
(* The documents the program is run on.  An input line is written from its *)
(* tokens (the literals and operators of an expression, or the literal of  *)
(* a subtotal), the separator put between them, and its comment; a         *)
(* subtotal has a row of dashes before it and spaces before its row.       *)
(***************************************************************************)
RECURSIVE Join(_, _, _)
Join(toks, sep, i) ==
    IF i > Len(toks) THEN <<>>
    ELSE IF i = Len(toks) THEN toks[i]
    ELSE toks[i] \o sep \o Join(toks, sep, i + 1)

OpItem(toks, sep, comment) ==
    [kind |-> "Operation", toks |-> toks, sep |-> sep, comment |-> comment,
     dashes |-> 0, pad |-> 0]

SubItem(dashes, pad, toks, comment) ==
    [kind |-> "Subtotal", toks |-> toks, sep |-> <<>>, comment |-> comment,
     dashes |-> dashes, pad |-> pad]

ItemText(it) ==
    LET body == Join(it.toks, it.sep, 1)
                \o (IF it.comment = <<>> THEN <<>> ELSE <<" ">> \o it.comment)
    IN  IF it.kind = "Operation" THEN body \o <<NL>>
        ELSE Repeat("-", it.dashes) \o <<NL>> \o Repeat(" ", it.pad) \o body \o <<NL>>

RECURSIVE DocText(_, _)
DocText(items, i) ==
    IF i > Len(items) THEN <<>> ELSE ItemText(items[i]) \o DocText(items, i + 1)

I12 == <<"[", "1", ",", " ", "2", "]">>

I34 == <<"[", "3", ",", " ", "4", "]">>

Im12 == <<"[", "-", "1", ",", " ", "2", "]">>

\* A ledger: expressions with and without comments, written with and
\* without spaces, and subtotals with and without a literal.  The last one
\* has no dash before it: it is a subtotal only at the start of the text.
LedgerItems ==
    { OpItem(<< <<"8">>, <<"/">>, <<"4">>, <<"*">>, <<"2">> >>, <<" ">>, <<>>),
      OpItem(<< <<"1">>, <<"/">>, <<"3">>, <<"/">>, <<"2">> >>, <<>>, <<"a">>),
      OpItem(<< <<"2", ".", "5", "0">> >>, <<>>, <<"r", " ", "b">>),
      OpItem(<< I12 >>, <<>>, <<>>),
      SubItem(2, 2, <<>>, <<"s">>),
      SubItem(1, 0, << <<"7">> >>, <<"t">>),
      SubItem(0, 0, <<>>, <<"c">>) }

\* Interval arithmetic: the supported and the unsupported operations, a
\* division by zero, a negative factor, and subtotals with and without a
\* literal.
ArithItems ==
    { OpItem(<< I12, <<"*">>, I34 >>, <<" ">>, <<>>),
      OpItem(<< Im12, <<"*">>, I34 >>, <<" ">>, <<>>),
      OpItem(<< I12, <<"/">>, I34 >>, <<" ">>, <<>>),
      OpItem(<< <<"1">>, <<"/">>, <<"0">> >>, <<" ">>, <<>>),
      OpItem(<< <<"9">> >>, <<>>, <<>>),
      OpItem(<< I12, <<"*">>, <<"-", "1">> >>, <<" ">>, <<>>),
      SubItem(3, 1, <<>>, <<>>),
      SubItem(1, 0, << I34 >>, <<"t">>) }

Documents(items) == UNION { [1..n -> items] : n \in 0..MaxLines }

(***************************************************************************)
(* The program: main() reads the text, parses it, evaluates the document   *)
(* and prints it.  pc is the place the run has reached.                    *)
(***************************************************************************)
InitWith(items) ==
    /\ input \in Documents(items)
    /\ buf = DocText(input, 1)
    /\ pc = "parse"
    /\ lines = <<>>
    /\ parsed = <<>>
    /\ idx = 0
    /\ accu = None
    /\ out = <<>>
    /\ stdout = <<>>
    /\ run = 1
    /\ prevOut = <<>>
    /\ prevLines = <<>>

\* The ledgers that open with an expression, the opening balance.
InitOpening == InitWith(LedgerItems) /\ input # <<>> /\ input[1].kind = "Operation"

Init == InitWith(LedgerItems)

InitArith == InitWith(ArithItems)

\* main(): the text is parsed; a text that does not parse is reported and
\* the run ends.
Parse ==
    /\ pc = "parse"
    /\ \E r \in {parse_document(buf)} :
           IF r.ok
           THEN /\ lines' = r.val
                /\ parsed' = r.val
                /\ pc' = "evaluate"
           ELSE /\ pc' = "parse_error"
                /\ UNCHANGED <<lines, parsed>>
    /\ UNCHANGED <<input, buf, idx, accu, out, stdout, run, prevOut, prevLines>>

\* evaluate() without its early return on a first line that is a Subtotal:
\* the balance opens at zero.
EvaluateFirst_no_return ==
    /\ pc = "evaluate"
    /\ IF lines = <<>>
       THEN /\ pc' = "print"
            /\ UNCHANGED <<idx, accu>>
       ELSE \E v \in {IF lines[1].kind = "Subtotal" THEN Number(DecZero)
                      ELSE evaluate_operation(lines[1].operation)} :
                IF IsPanic(v)
                THEN /\ pc' = "panic"
                     /\ UNCHANGED <<idx, accu>>
                ELSE /\ accu' = v
                     /\ idx' = 2
                     /\ pc' = "loop"
    /\ UNCHANGED <<input, buf, lines, parsed, out, stdout, run, prevOut, prevLines>>

\* evaluate(): the early returns, and the accumulator set from line 0.
EvaluateFirst ==
    /\ pc = "evaluate"
    /\ IF lines = <<>> \/ lines[1].kind = "Subtotal"
       THEN /\ pc' = "print"
            /\ UNCHANGED <<idx, accu>>
       ELSE \E v \in {evaluate_operation(lines[1].operation)} :
                IF IsPanic(v)
                THEN /\ pc' = "panic"
                     /\ UNCHANGED <<idx, accu>>
                ELSE /\ accu' = v
                     /\ idx' = 2
                     /\ pc' = "loop"
    /\ UNCHANGED <<input, buf, lines, parsed, out, stdout, run, prevOut, prevLines>>

\* evaluate(): the loop's Operation arm.
EvaluateOperationLine ==
    /\ pc = "loop"
    /\ idx <= Len(lines)
    /\ lines[idx].kind = "Operation"
    /\ \E v \in {evaluate_operation(lines[idx].operation)} :
           IF IsPanic(v)
           THEN /\ pc' = "panic"
                /\ UNCHANGED <<idx, accu>>
           ELSE /\ accu' = sub(accu, v)
                /\ idx' = idx + 1
                /\ pc' = "loop"
    /\ UNCHANGED <<input, buf, lines, parsed, out, stdout, run, prevOut, prevLines>>

\* The Subtotal arm closing the balance: the accumulator starts again at zero.
EvaluateSubtotalLine_resets ==
    /\ pc = "loop"
    /\ idx <= Len(lines)
    /\ lines[idx].kind = "Subtotal"
    /\ lines' = [lines EXCEPT ![idx].value = Some(accu)]
    /\ accu' = Number(DecZero)
    /\ idx' = idx + 1
    /\ UNCHANGED <<input, buf, pc, parsed, out, stdout, run, prevOut, prevLines>>

\* The Subtotal arm building the line anew, without its comment.
EvaluateSubtotalLine_rebuilds ==
    /\ pc = "loop"
    /\ idx <= Len(lines)
    /\ lines[idx].kind = "Subtotal"
    /\ lines' = [lines EXCEPT ![idx] = SubtotalLine(Some(accu), <<>>)]
    /\ idx' = idx + 1
    /\ UNCHANGED <<input, buf, pc, parsed, accu, out, stdout, run, prevOut, prevLines>>

\* evaluate(): the loop's Subtotal arm.
EvaluateSubtotalLine ==
    /\ pc = "loop"
    /\ idx <= Len(lines)
    /\ lines[idx].kind = "Subtotal"
    /\ lines' = [lines EXCEPT ![idx].value = Some(accu)]
    /\ idx' = idx + 1
    /\ UNCHANGED <<input, buf, pc, parsed, accu, out, stdout, run, prevOut, prevLines>>

\* evaluate(): the loop is over.
EvaluateReturn ==
    /\ pc = "loop"
    /\ idx > Len(lines)
    /\ pc' = "print"
    /\ UNCHANGED <<input, buf, lines, parsed, idx, accu, out, stdout, run, prevOut, prevLines>>

\* main(): the document is printed; println! ends it with a line break.
PrettyPrint ==
    /\ pc = "print"
    /\ \E f \in {pretty_print(lines)} :
           /\ out' = f
           /\ stdout' = f \o <<NL>>
    /\ pc' = "done"
    /\ UNCHANGED <<input, buf, lines, parsed, idx, accu, run, prevOut, prevLines>>

\* The program is run again, on the text pretty_print returned.
Rerun ==
    /\ pc = "done"
    /\ run < MaxRuns
    /\ buf' = out
    /\ prevOut' = out
    /\ prevLines' = lines
    /\ run' = run + 1
    /\ pc' = "parse"
    /\ lines' = <<>>
    /\ parsed' = <<>>
    /\ idx' = 0
    /\ accu' = None
    /\ out' = <<>>
    /\ stdout' = <<>>
    /\ UNCHANGED input

Next ==
    \/ Parse
    \/ EvaluateFirst
    \/ EvaluateOperationLine
    \/ EvaluateSubtotalLine
    \/ EvaluateReturn
    \/ PrettyPrint
    \/ Rerun

Spec == Init /\ [][Next]_vars

SpecOpening == InitOpening /\ [][Next]_vars

SpecArith == InitArith /\ [][Next]_vars

(***************************************************************************)
(* Notions the properties below are stated with.                           *)
(***************************************************************************)
FirstIsOperation(ls) == ls # <<>> /\ ls[1].kind = "Operation"

\* evaluate() has returned.
Evaluated == pc \in {"print", "done"}

\* The document has been parsed and evaluate() has been entered.
Entered == pc \in {"loop", "print", "done", "panic"}

ValueOf(line) == evaluate_operation(line.operation)

\* The running balance before line i (i >= 2) of a document whose first line
\* is an Operation: the value of line 1, less the value of every Operation
\* line from 2 to i - 1.
RECURSIVE Balance(_, _)
Balance(ls, i) ==
    IF i <= 2 THEN ValueOf(ls[1])
    ELSE IF ls[i - 1].kind = "Operation"
    THEN Bind(Balance(ls, i - 1), LAMBDA b : sub(b, ValueOf(ls[i - 1])))
    ELSE Balance(ls, i - 1)

WellFormed(v) == IsNumber(v) \/ (IsInterval(v) /\ DecLe(v[2], v[3]))

\* The sub-expressions of an expression tree.
RECURSIVE Nodes(_)
Nodes(op) ==
    IF op[1] = "Value" THEN {op} ELSE {op} \cup Nodes(op[2]) \cup Nodes(op[3])

BothIntervals(n) ==
    /\ n[1] # "Value"
    /\ IsInterval(evaluate_operation(n[2]))
    /\ IsInterval(evaluate_operation(n[3]))

\* An interval-by-interval multiplication the code supports.
SupportedProduct(n) ==
    /\ BothIntervals(n)
    /\ n[1] = "Mul"
    /\ DecLe(DecZero, evaluate_operation(n[2])[2])
    /\ DecLe(DecZero, evaluate_operation(n[3])[2])

\* An interval-by-interval multiplication with a negative lower bound, or an
\* interval-by-interval division.
UnsupportedNode(n) == BothIntervals(n) /\ ~SupportedProduct(n)

Unsupported(line) ==
    line.kind = "Operation" /\ \E n \in Nodes(line.operation) : UnsupportedNode(n)

(***************************************************************************)
(* C1: when the first line is an Operation and evaluation does not fail,   *)
(* every Subtotal line at index i >= 1 holds Some(the value of line 0 less *)
(* the values of the Operation lines before it); the literal a Subtotal    *)
(* carried from parsing counts for nothing, and two subtotals with no      *)
(* Operation line between them hold the same value.                        *)
(***************************************************************************)
C1_RunningBalance ==
    (Evaluated /\ FirstIsOperation(parsed)) =>
        /\ \A i \in 2..Len(lines) :
               lines[i].kind = "Subtotal" => lines[i].value = Some(Balance(parsed, i))
        /\ \A i \in 2..(Len(lines) - 1) :
               (lines[i].kind = "Subtotal" /\ lines[i + 1].kind = "Subtotal")
                   => lines[i].value = lines[i + 1].value

\* A document of an opening balance, a deduction, a subtotal that carried a
\* literal of its own and a second subtotal right after it, evaluated.
C1_Witness ==
    /\ pc = "done"
    /\ run = 1
    /\ Len(lines) = 4
    /\ lines[1].kind = "Operation"
    /\ lines[2].kind = "Operation"
    /\ lines[3].kind = "Subtotal"
    /\ lines[4].kind = "Subtotal"
    /\ parsed[3].value # None
    /\ lines[3].value = Some(sub(ValueOf(lines[1]), ValueOf(lines[2])))
    /\ lines[3].value # parsed[3].value
    /\ lines[4].value = lines[3].value

(***************************************************************************)
(* C2: the printed text is a fixed point of the pipeline: it parses, and   *)
(* running the program on it prints the same text again.                   *)
(***************************************************************************)
C2_FixedPoint ==
    run >= 2 =>
        /\ pc # "parse_error"
        /\ pc = "done" => out = prevOut

(***************************************************************************)
(* C3: printing the evaluated document, parsing the print again and        *)
(* evaluating it gives Subtotal lines at the same places with the same     *)
(* values.                                                                 *)
(***************************************************************************)
ValueEq(v, w) ==
    /\ v[1] = w[1]
    /\ DecEq(v[2], w[2])
    /\ IsInterval(v) => DecEq(v[3], w[3])

OptionEq(a, b) ==
    /\ a[1] = b[1]
    /\ a # None => ValueEq(a[2], b[2])

C3_SubtotalRoundTrip ==
    run >= 2 =>
        /\ pc # "parse_error"
        /\ pc = "done" =>
               /\ Len(lines) = Len(prevLines)
               /\ \A i \in 1..Len(lines) :
                      /\ lines[i].kind = prevLines[i].kind
                      /\ lines[i].kind = "Subtotal"
                             => OptionEq(lines[i].value, prevLines[i].value)

(***************************************************************************)
(* C4: an operation on two intervals has a value only as a multiplication  *)
(* of [a,b] by [c,d] with a >= 0 and c >= 0, and the value is then         *)
(* Interval(a*c, b*d); every other one panics, and a run that evaluates    *)
(* one writes no subtotal after it and prints nothing.                     *)
(***************************************************************************)
C4_IntervalByInterval ==
    pc \notin {"parse", "parse_error"} =>
        /\ \A j \in 1..Len(parsed) :
               parsed[j].kind = "Operation" =>
                   \A n \in Nodes(parsed[j].operation) :
                       BothIntervals(n) =>
                           IF SupportedProduct(n)
                           THEN evaluate_operation(n)
                                    = Interval(DecMul(evaluate_operation(n[2])[2],
                                                      evaluate_operation(n[3])[2]),
                                               DecMul(evaluate_operation(n[2])[3],
                                                      evaluate_operation(n[3])[3]))
                           ELSE IsPanic(evaluate_operation(n))
        /\ FirstIsOperation(parsed) =>
               \A j \in 1..Len(parsed) :
                   Unsupported(parsed[j]) =>
                       /\ ~Evaluated
                       /\ out = <<>>
                       /\ stdout = <<>>
                       /\ idx <= j
                       /\ \A k \in j..Len(lines) : lines[k] = parsed[k]

\* The run has panicked at a multiplication of two intervals, the first
\* with a negative lower bound, with an unwritten subtotal after it.
C4_Witness ==
    /\ pc = "panic"
    /\ idx = 2
    /\ Len(lines) = 3
    /\ lines[3].kind = "Subtotal"
    /\ lines[2].kind = "Operation"
    /\ lines[2].operation[1] = "Mul"
    /\ UnsupportedNode(lines[2].operation)

(***************************************************************************)
(* C5: the two unsupported operations are the only faults of evaluation:   *)
(* a run panics only on a document that has one of them.                   *)
(***************************************************************************)
C5_OnlyUnsupportedFaults ==
    pc = "panic" => \E j \in 1..Len(parsed) : Unsupported(parsed[j])

(***************************************************************************)
(* C6: on an empty document or one whose first line is a Subtotal,         *)
(* evaluate does nothing: every Subtotal keeps the value it was parsed     *)
(* with, no expression is evaluated and no fault occurs.                   *)
(***************************************************************************)
C6_SubtotalFirstNoOp ==
    (Entered /\ ~FirstIsOperation(parsed)) =>
        /\ lines = parsed
        /\ pc \notin {"loop", "panic"}
        /\ accu = None
        /\ idx = 0

\* A run done on a document that opens with a subtotal, has an operation
\* that would panic and a later subtotal that carries a literal.
C6_Witness ==
    /\ pc = "done"
    /\ run = 1
    /\ Len(lines) = 3
    /\ lines[1].kind = "Subtotal"
    /\ lines[2].kind = "Operation"
    /\ IsPanic(ValueOf(lines[2]))
    /\ lines[3].kind = "Subtotal"
    /\ lines[3].value # None

(***************************************************************************)
(* C7: an operation line v0 op1 v1 ... opk vk is parsed to the left-nested *)
(* tree, its value is the left-to-right fold of the operators over the     *)
(* literals, and it is printed as the same literals and operators in the   *)
(* same order.                                                             *)
(***************************************************************************)
RECURSIVE Leaves(_)
Leaves(op) == IF op[1] = "Value" THEN <<op[2]>> ELSE Leaves(op[2]) \o Leaves(op[3])

RECURSIVE OpsOf(_)
OpsOf(op) ==
    IF op[1] = "Value" THEN <<>>
    ELSE OpsOf(op[2]) \o <<IF op[1] = "Mul" THEN "*" ELSE "/">> \o OpsOf(op[3])

RECURSIVE LeftNested(_)
LeftNested(op) == op[1] = "Value" \/ (op[3][1] = "Value" /\ LeftNested(op[2]))

\* The literals and the operators an input line was written from.
LiteralsOf(toks) == [k \in 1..((Len(toks) + 1) \div 2) |-> parse_value(toks[2 * k - 1], 1).val]

OperatorsOf(toks) == [k \in 1..(Len(toks) \div 2) |-> toks[2 * k][1]]

RECURSIVE FoldLeft(_, _, _)
FoldLeft(vs, os, k) ==
    IF k = 0 THEN vs[1]
    ELSE Bind(FoldLeft(vs, os, k - 1), LAMBDA a :
             IF IsPanic(a) THEN Panic
             ELSE IF os[k] = "*" THEN mul(a, vs[k + 1]) ELSE div(a, vs[k + 1]))

RECURSIVE Infix(_, _, _)
Infix(vs, os, k) ==
    IF k = 0 THEN pretty_print_value(vs[1])
    ELSE Infix(vs, os, k - 1) \o <<" ", os[k], " ">> \o pretty_print_value(vs[k + 1])

C7_LeftToRight ==
    (run = 1 /\ pc \notin {"parse", "parse_error"}) =>
        /\ Len(parsed) = Len(input)
        /\ \A i \in 1..Len(input) :
               input[i].kind = "Operation" =>
                   /\ parsed[i].kind = "Operation"
                   /\ LeftNested(parsed[i].operation)
                   /\ Leaves(parsed[i].operation) = LiteralsOf(input[i].toks)
                   /\ OpsOf(parsed[i].operation) = OperatorsOf(input[i].toks)
                   /\ ValueOf(parsed[i])
                          = FoldLeft(LiteralsOf(input[i].toks), OperatorsOf(input[i].toks),
                                     Len(input[i].toks) \div 2)
                   /\ pretty_print_operation(parsed[i].operation)
                          = Infix(LiteralsOf(input[i].toks), OperatorsOf(input[i].toks),
                                  Len(input[i].toks) \div 2)

\* A line a / b * c whose value is (a / b) * c and not a / (b * c).
C7_Witness ==
    /\ pc = "done"
    /\ run = 1
    /\ \E i \in 1..Len(parsed) :
           /\ parsed[i].kind = "Operation"
           /\ OpsOf(parsed[i].operation) = <<"/", "*">>
           /\ Bind(Leaves(parsed[i].operation), LAMBDA v :
                  /\ ValueOf(parsed[i]) = mul(div(v[1], v[2]), v[3])
                  /\ ~ValueEq(ValueOf(parsed[i]), div(v[1], mul(v[2], v[3]))))

(***************************************************************************)
(* C8: the print has one row for an Operation line and three rows for a    *)
(* Subtotal line (column_width dashes, the subtotal's row, an empty row),  *)
(* in document order; an Operation row and a Subtotal row are the          *)
(* left-hand side after the spaces that fill it up to column_width, one    *)
(* space, and the comment; column_width is the longest left-hand side.     *)
(***************************************************************************)
\* The rows of a text: what stands before each line break.
RECURSIVE Rows(_, _, _)
Rows(t, p, row) ==
    IF p > Len(t) THEN (IF row = <<>> THEN <<>> ELSE <<row>>)
    ELSE IF t[p] = NL THEN <<row>> \o Rows(t, p + 1, <<>>)
    ELSE Rows(t, p + 1, Append(row, t[p]))

LhsText(line) ==
    IF line.kind = "Operation" THEN pretty_print_operation(line.operation)
    ELSE IF line.value = None THEN <<>>
    ELSE pretty_print_value(line.value[2])

ColumnWidth(ls) ==
    IF ls = <<>> THEN 0
    ELSE CHOOSE w \in {Len(LhsText(ls[i])) : i \in 1..Len(ls)} :
             \A i \in 1..Len(ls) : Len(LhsText(ls[i])) <= w

\* The number of rows printed for the lines before line i.
RECURSIVE RowsBefore(_, _)
RowsBefore(ls, i) ==
    IF i <= 1 THEN 0
    ELSE RowsBefore(ls, i - 1) + (IF ls[i - 1].kind = "Operation" THEN 1 ELSE 3)

\* row is lhs after width - Len(lhs) spaces, a space, and the comment.
IsAlignedRow(row, lhs, comment, width) ==
    /\ Len(row) = width + 1 + Len(comment)
    /\ \A k \in 1..(width - Len(lhs)) : row[k] = " "
    /\ SubSeq(row, width - Len(lhs) + 1, width) = lhs
    /\ row[width + 1] = " "
    /\ SubSeq(row, width + 2, Len(row)) = comment

C8_Layout ==
    pc = "done" =>
        \E rows \in {Rows(out, 1, <<>>)} : \E width \in {ColumnWidth(lines)} :
            /\ Len(rows) = RowsBefore(lines, Len(lines) + 1)
            /\ \A i \in 1..Len(lines) :
                   \E r \in {RowsBefore(lines, i) + 1} :
                       IF lines[i].kind = "Operation"
                       THEN IsAlignedRow(rows[r], LhsText(lines[i]), lines[i].comment, width)
                       ELSE /\ rows[r] = Repeat("-", width)
                            /\ IsAlignedRow(rows[r + 1], LhsText(lines[i]),
                                            lines[i].comment, width)
                            /\ rows[r + 2] = <<>>

\* A print in which a subtotal's value is the longest left-hand side, an
\* operation is padded to it, and the text has comments.
C8_Witness ==
    /\ pc = "done"
    /\ run = 1
    /\ \E i, j \in 1..Len(lines) :
           /\ lines[i].kind = "Subtotal"
           /\ lines[i].value # None
           /\ Len(LhsText(lines[i])) = ColumnWidth(lines)
           /\ lines[j].kind = "Operation"
           /\ Len(LhsText(lines[j])) < ColumnWidth(lines)
           /\ lines[j].comment # <<>>
           /\ \A k \in 1..Len(lines) :
                  lines[k].kind = "Operation" => Len(LhsText(lines[k])) < ColumnWidth(lines)

(***************************************************************************)
(* C9: evaluate changes nothing of the document but the value of Subtotal  *)
(* lines at index >= 1: the lines, their kinds, the expression trees and   *)
(* the comments stay as parsed.                                            *)
(***************************************************************************)
C9_EvaluateFrame ==
    pc \notin {"parse", "parse_error"} =>
        /\ Len(lines) = Len(parsed)
        /\ \A i \in 1..Len(lines) :
               /\ lines[i].kind = parsed[i].kind
               /\ lines[i].operation = parsed[i].operation
               /\ lines[i].comment = parsed[i].comment
               /\ lines[i].value # parsed[i].value
                      => (lines[i].kind = "Subtotal" /\ i >= 2)

\* A subtotal with a comment whose value evaluate has written.
C9_Witness ==
    /\ pc = "loop"
    /\ \E i \in 2..Len(lines) :
           /\ lines[i].kind = "Subtotal"
           /\ lines[i].comment # <<>>
           /\ lines[i].value # parsed[i].value

(***************************************************************************)
(* C10: sub has a value for every pair of operands; a Number n less an     *)
(* Interval [a,b] is Interval(n-b, n-a); and while the first line and      *)
(* every Operation line evaluated so far has a well-formed value (a Number *)
(* or an Interval with lo <= hi), the accumulator and every value written  *)
(* to a Subtotal are well-formed.                                          *)
(***************************************************************************)
C10_SubtractWellFormed ==
    (pc \in {"loop", "print", "done"} /\ FirstIsOperation(parsed)) =>
        /\ IsNumber(accu) \/ IsInterval(accu)
        /\ (idx >= 3 /\ parsed[idx - 1].kind = "Operation") =>
               \E b \in {Balance(parsed, idx - 1)} : \E v \in {ValueOf(parsed[idx - 1])} :
                   (IsNumber(b) /\ IsInterval(v))
                       => accu = Interval(DecSub(b[2], v[3]), DecSub(b[2], v[2]))
        /\ (\A j \in 1..(idx - 1) :
                parsed[j].kind = "Operation" => WellFormed(ValueOf(parsed[j])))
               => /\ WellFormed(accu)
                  /\ \A j \in 2..(idx - 1) :
                         lines[j].kind = "Subtotal" => WellFormed(lines[j].value[2])

\* The accumulator after a well-formed Interval was subtracted from a Number.
C10_Witness ==
    /\ pc = "loop"
    /\ idx = 3
    /\ parsed[2].kind = "Operation"
    /\ IsNumber(ValueOf(parsed[1]))
    /\ IsInterval(ValueOf(parsed[2]))
    /\ WellFormed(ValueOf(parsed[2]))
    /\ IsInterval(accu)
    /\ DecLe(accu[2], accu[3])
    /\ ~DecEq(accu[2], accu[3])

====
